---- MODULE Spec2Model ----
(***************************************************************************)
(* Model of src/chunk_processor.py: ChunkProcessor.__init__,               *)
(* get_effective_limit, estimate_tokens and process_file (the chunk        *)
(* planner and the line-count validator).                                  *)
(*                                                                         *)
(* Offsets are Python's 0-based offsets; a text is a sequence of           *)
(* one-character strings, so content[a:b] is SubSeq(content, a + 1, b).    *)
(* An Optional[int] is <<>> for None and <<n>> for the integer n.          *)
(* A safety factor is the float numerator / SafetyDen; SafetyDen is a      *)
(* power of two, so base_limit * safety_factor is exact in the code's      *)
(* floating point for every value used here.                               *)
(* process_interactively (lines 134-153) only reads chunks_info and talks  *)
(* to the clipboard and the terminal; it changes nothing process_file      *)
(* returns and is left out.                                                *)
(***************************************************************************)
EXTENDS Integers, Sequences, FiniteSets, TLC

\* ------------------------------------------------------------------ bounds
MaxLen == 7
MaxRequest == 3

\* ------------------------------------------------------- program constants
SafetyDen == 4096
DEFAULT_SAFETY_FACTOR == 2048

\* The only characters the code tells apart are "." and "\n" (the markers
\* ".\n" and "\n\n", and the line separator).  A "." that no "\n" follows
\* is treated like any other character, so it also stands for ordinary text.
Alphabet == {".", "\n"}

Texts == UNION {[1..n -> Alphabet] : n \in 0..MaxLen}

\* self.context_limits; a model name outside it is a KeyError.
KnownModels == {"claude-3-sonnet-20240229", "gpt-4", "gpt-3.5-turbo"}

context_limits ==
    [m \in KnownModels |->
        CASE m = "claude-3-sonnet-20240229" -> 200000
          [] m = "gpt-4" -> 8192
          [] m = "gpt-3.5-turbo" -> 4096]

Models == KnownModels \cup {"unknown-model"}

\* Safety factors a caller or CHUNK_SAFETY_FACTOR can give (numerators).
SafetyNumerators == {-1, 0, 1, 2, DEFAULT_SAFETY_FACTOR}

OptionalSafety == {<<>>} \cup {<<f>> : f \in SafetyNumerators}

\* num_chunks: Optional[int]
RequestedCounts == {<<>>} \cup {<<n>> : n \in (-1)..MaxRequest}

\* tiktoken's encoding is an external library.  It is modelled by two
\* encoders with encode("") = []: one token per character, and one that
\* merges every run of one repeated character into a single token.
Tokenizers == {"per_char", "merge_runs"}

\* ----------------------------------------------------------- pure helpers
Min(a, b) == IF a <= b THEN a ELSE b

Max(a, b) == IF a >= b THEN a ELSE b

\* int(x) of the quotient p / q, q > 0: truncation toward zero.
IntTrunc(p, q) == IF p >= 0 THEN p \div q ELSE -((-p) \div q)

\* math.ceil(a / b) for b > 0.
CeilPos(a, b) == IF a >= 0 THEN (a + b - 1) \div b ELSE -((-a) \div b)

\* math.ceil(a / b) for b # 0.
CeilDiv(a, b) == IF b > 0 THEN CeilPos(a, b) ELSE CeilPos(-a, -b)

\* content[a:b] for 0 <= a, 0 <= b (Python clamps to the length).
Slice(s, a, b) == SubSeq(s, Min(a, Len(s)) + 1, Min(b, Len(s)))

\* s.count('\n')
CountLines(s) == Cardinality({k \in 1..Len(s) : s[k] = "\n"})

\* s.rfind(sub): the highest 0-based offset at which sub occurs, or -1.
RECURSIVE RFindFrom(_, _, _)
RFindFrom(s, sub, k) ==
    IF k < 0 THEN -1
    ELSE IF SubSeq(s, k + 1, k + Len(sub)) = sub THEN k
    ELSE RFindFrom(s, sub, k - 1)

FindFirst(s, sub) ==
    LET hits == {k \in 0..(Len(s) - Len(sub)) : SubSeq(s, k + 1, k + Len(sub)) = sub}
    IN IF hits = {} THEN -1 ELSE CHOOSE k \in hits : \A j \in hits : k <= j

RFind(s, sub) == RFindFrom(s, sub, Len(s) - Len(sub))

\* len(self.tokenizer.encode(text))
EncodeLen(tok, s) ==
    IF tok = "per_char" THEN Len(s)
    ELSE Cardinality({k \in 1..Len(s) : k = 1 \/ s[k] # s[k - 1]})

estimate_tokens(tok, s) == EncodeLen(tok, s)

\* int(base_limit * self.safety_factor), for a model of the registry.
get_effective_limit(m, sf) == IntTrunc(context_limits[m] * sf, SafetyDen)

\* lines 65-66: the planned number of chunks.
NumChunks(requested, minimum) ==
    IF requested = <<>> \/ requested[1] < minimum THEN minimum ELSE requested[1]

ChunkSizeSwapped(length, n) == IF length = 0 THEN 0 ELSE CeilDiv(n, length)

ChunkSizeFloor(length, n) == length \div n

\* line 75: chunk_size = math.ceil(len(content) / num_chunks), num_chunks # 0.
ChunkSize(length, n) == CeilDiv(length, n)

\* line 86: the naive boundary.
NaiveEnd(text, pos, size) == Min(pos + size, Len(text))

\* lines 90-92: split_point of a chunk, -1 when it holds no marker.
SplitPoint(chunk) ==
    LET last_period == RFind(chunk, <<".", "\n">>)
        last_newline == RFind(chunk, <<"\n", "\n">>)
    IN Max(last_period, last_newline)

\* lines 86-96: end_pos of the chunk planned at index idx from offset pos.
ChunkEnd(text, pos, idx, n, size) ==
    LET end_pos == NaiveEnd(text, pos, size)
        chunk == Slice(text, pos, end_pos)
    IN IF idx < n - 1 /\ end_pos < Len(text)
       THEN LET split_point == SplitPoint(chunk)
            IN IF split_point # -1 THEN pos + split_point + 2 ELSE end_pos
       ELSE end_pos

WarningNegated(original, total) ==
    IF original # total THEN <<total - original>> ELSE <<>>

\* lines 126-127: the warning and its magnitude, <<>> when none is printed.
Warning(original, total) ==
    IF original # total THEN <<original - total>> ELSE <<>>

\* ------------------------------------------------------------------ state
VARIABLES
    model, safety_factor, tokenizer,           \* the ChunkProcessor
    content, requested, original_lines,        \* the file and the argument
    total_tokens, effective_limit,
    min_chunks, num_chunks, chunk_size,
    chunks_info, ranges, current_pos, total_chunk_lines, i,
    warning, pc, outcome

vars == <<model, safety_factor, tokenizer, content, requested, original_lines,
          total_tokens, effective_limit, min_chunks, num_chunks, chunk_size,
          chunks_info, ranges, current_pos, total_chunk_lines, i,
          warning, pc, outcome>>

procVars == <<model, safety_factor, tokenizer>>

\* __init__ (lines 14-27): safety_factor or float(getenv(..., DEFAULT)).
Init ==
    /\ model \in Models
    /\ tokenizer \in Tokenizers
    /\ \E arg \in OptionalSafety, env \in OptionalSafety :
          safety_factor =
              IF arg # <<>> /\ arg[1] # 0 THEN arg[1]
              ELSE IF env # <<>> THEN env[1]
              ELSE DEFAULT_SAFETY_FACTOR
    /\ content = <<>>
    /\ requested = <<>>
    /\ original_lines = 0
    /\ total_tokens = 0
    /\ effective_limit = 0
    /\ min_chunks = 0
    /\ num_chunks = 0
    /\ chunk_size = 0
    /\ chunks_info = <<>>
    /\ ranges = <<>>
    /\ current_pos = 0
    /\ total_chunk_lines = 0
    /\ i = 0
    /\ warning = <<>>
    /\ pc = "ready"
    /\ outcome = "none"

\* lines 45-50: the file is missing or not UTF-8; process_file returns None.
FileError ==
    /\ pc = "ready"
    /\ pc' = "returned"
    /\ outcome' = "None"
    /\ UNCHANGED <<procVars, content, requested, original_lines, total_tokens,
                   effective_limit, min_chunks, num_chunks, chunk_size,
                   chunks_info, ranges, current_pos, total_chunk_lines, i,
                   warning>>

\* lines 40-54: the file is read, the tokens are estimated and the
\* effective limit is looked up (KeyError for a model outside the registry).
ReadFile ==
    /\ pc = "ready"
    /\ \E text \in Texts, req \in RequestedCounts :
          /\ content' = text
          /\ requested' = req
          /\ original_lines' = CountLines(text)
          /\ total_tokens' = estimate_tokens(tokenizer, text)
    /\ IF model \in KnownModels
       THEN /\ effective_limit' = get_effective_limit(model, safety_factor)
            /\ pc' = "plan"
            /\ outcome' = outcome
       ELSE /\ effective_limit' = effective_limit
            /\ pc' = "raised"
            /\ outcome' = "KeyError"
    /\ UNCHANGED <<procVars, min_chunks, num_chunks, chunk_size, chunks_info,
                   ranges, current_pos, total_chunk_lines, i, warning>>

\* lines 63-79: min_chunks, num_chunks and chunk_size; both divisions raise
\* ZeroDivisionError on a zero divisor.
Plan ==
    /\ pc = "plan"
    /\ IF effective_limit = 0
       THEN /\ pc' = "raised"
            /\ outcome' = "ZeroDivisionError"
            /\ UNCHANGED <<min_chunks, num_chunks, chunk_size>>
       ELSE LET mc == CeilDiv(total_tokens, effective_limit)
                nc == NumChunks(requested, mc)
            IN /\ min_chunks' = mc
               /\ num_chunks' = nc
               /\ IF nc = 0
                  THEN /\ pc' = "raised"
                       /\ outcome' = "ZeroDivisionError"
                       /\ UNCHANGED chunk_size
                  ELSE /\ chunk_size' = ChunkSize(Len(content), nc)
                       /\ pc' = "loop"
                       /\ outcome' = outcome
    /\ UNCHANGED <<procVars, content, requested, original_lines, total_tokens,
                   effective_limit, chunks_info, ranges, current_pos,
                   total_chunk_lines, i, warning>>

\* lines 81-120: one iteration of the loop that emits a chunk.
EmitChunk ==
    /\ pc = "loop"
    /\ i < num_chunks
    /\ current_pos < Len(content)
    /\ LET end_pos == ChunkEnd(content, current_pos, i, num_chunks, chunk_size)
           chunk == Slice(content, current_pos, end_pos)
       IN /\ chunks_info' = Append(chunks_info,
                 [file |-> i + 1,
                  chars |-> Len(chunk),
                  tokens |-> estimate_tokens(tokenizer, chunk),
                  lines |-> CountLines(chunk),
                  content |-> chunk])
          /\ ranges' = Append(ranges,
                 [index |-> i, start |-> current_pos, end |-> end_pos])
          /\ total_chunk_lines' = total_chunk_lines + CountLines(chunk)
          /\ current_pos' = end_pos
    /\ i' = i + 1
    /\ UNCHANGED <<procVars, content, requested, original_lines, total_tokens,
                   effective_limit, min_chunks, num_chunks, chunk_size,
                   warning, pc, outcome>>

\* lines 82-83: current_pos reached the end of the text, the loop breaks.
LoopBreak ==
    /\ pc = "loop"
    /\ i < num_chunks
    /\ current_pos >= Len(content)
    /\ pc' = "validate"
    /\ UNCHANGED <<procVars, content, requested, original_lines, total_tokens,
                   effective_limit, min_chunks, num_chunks, chunk_size,
                   chunks_info, ranges, current_pos, total_chunk_lines, i,
                   warning, outcome>>

\* line 81: range(num_chunks) is exhausted.
LoopEnd ==
    /\ pc = "loop"
    /\ i >= num_chunks
    /\ pc' = "validate"
    /\ UNCHANGED <<procVars, content, requested, original_lines, total_tokens,
                   effective_limit, min_chunks, num_chunks, chunk_size,
                   chunks_info, ranges, current_pos, total_chunk_lines, i,
                   warning, outcome>>

\* lines 122-132: the line counts are compared and chunks_info is returned.
Validate ==
    /\ pc = "validate"
    /\ warning' = Warning(original_lines, total_chunk_lines)
    /\ pc' = "returned"
    /\ outcome' = "chunks_info"
    /\ UNCHANGED <<procVars, content, requested, original_lines, total_tokens,
                   effective_limit, min_chunks, num_chunks, chunk_size,
                   chunks_info, ranges, current_pos, total_chunk_lines, i>>

Next ==
    \/ FileError
    \/ ReadFile
    \/ Plan
    \/ EmitChunk
    \/ LoopBreak
    \/ LoopEnd
    \/ Validate

Spec == Init /\ [][Next]_vars

\* ------------------------------------------------- the whole run, as a function
\* lines 81-120 iterated: the number of chunks the loop emits from offset pos
\* and index idx on.
RECURSIVE CountFrom(_, _, _, _, _)
CountFrom(text, pos, idx, n, size) ==
    IF idx >= n \/ pos >= Len(text) THEN 0
    ELSE 1 + CountFrom(text, ChunkEnd(text, pos, idx, n, size), idx + 1, n, size)

\* lines 53-120: the number of chunks process_file emits for a non-empty
\* text, a positive limit and the requested count req.
EmittedFor(text, tok, limit, req) ==
    LET mc == CeilDiv(estimate_tokens(tok, text), limit)
        nc == NumChunks(req, mc)
    IN CountFrom(text, 0, 0, nc, ChunkSize(Len(text), nc))

\* ------------------------------------------------------------ claim helpers
RECURSIVE ConcatContents(_)
ConcatContents(chunks) ==
    IF chunks = <<>> THEN <<>>
    ELSE chunks[1].content \o ConcatContents(Tail(chunks))

RECURSIVE SumLines(_)
SumLines(chunks) ==
    IF chunks = <<>> THEN 0 ELSE chunks[1].lines + SumLines(Tail(chunks))

Returned == pc = "returned" /\ outcome = "chunks_info"

ValidInput == content # <<>> /\ effective_limit > 0

\* 1-based positions of the text that lie in no emitted range.
UncoveredPositions ==
    {p \in 1..Len(content) :
        \A k \in 1..Len(ranges) : ~(ranges[k].start < p /\ p <= ranges[k].end)}

UncoveredLines == Cardinality({p \in UncoveredPositions : content[p] = "\n"})

IsMarker(w) == w = <<".", "\n">> \/ w = <<"\n", "\n">>

\* 0-based offsets, within the naive window of range r, at which a marker starts.
MarkerOffsets(r) ==
    LET naive == Min(r.start + chunk_size, Len(content))
    IN {p \in 0..(naive - r.start - 2) :
           IsMarker(SubSeq(content, r.start + p + 1, r.start + p + 2))}

SetMax(S) == CHOOSE x \in S : \A y \in S : y <= x

Adjusted(r) == r.end < Min(r.start + chunk_size, Len(content))

\* ------------------------------------------------------------------ claims

\* C1 (Coverage): for a non-empty text and a positive effective limit, the
\* chunks process_file returns, concatenated in order, equal the text, and
\* the last chunk ends at len(text).
C1_Coverage ==
    (Returned /\ ValidInput) =>
        /\ ConcatContents(chunks_info) = content
        /\ ranges # <<>>
        /\ ranges[Len(ranges)].end = Len(content)

\* C2 (Minimum chunk count): for a non-empty text and a positive effective
\* limit, the number of chunks emitted is at least
\* ceil(estimate_tokens(text) / effective_limit).
C2_MinimumChunkCount ==
    (Returned /\ ValidInput) =>
        Len(chunks_info) >= CeilPos(EncodeLen(tokenizer, content), effective_limit)

\* C3 (Every chunk fits the budget): for a non-empty text and a positive
\* effective limit, every emitted chunk's estimated token count is at most
\* the effective limit.
C3_EveryChunkFitsBudget ==
    ValidInput =>
        \A k \in 1..Len(chunks_info) : chunks_info[k].tokens <= effective_limit

\* The effective limit of the run has been computed (line 54 was passed).
LimitComputed ==
    \/ pc \in {"plan", "loop", "validate"}
    \/ Returned
    \/ pc = "raised" /\ outcome = "ZeroDivisionError"

\* C4 (Non-positive limit is fatal): whenever the effective limit is <= 0,
\* no chunk is emitted and process_file never returns a chunk list.
C4_NonPositiveLimitIsFatal ==
    (LimitComputed /\ effective_limit <= 0) =>
        /\ chunks_info = <<>>
        /\ ~Returned

\* C5 (Empty input is safe): for the empty text and a positive effective
\* limit, process_file does not end in a division error, and it returns
\* zero chunks or one empty chunk.
C5_EmptyInputIsSafe ==
    (content = <<>> /\ effective_limit > 0 /\ pc \in {"raised", "returned"}) =>
        /\ Returned
        /\ \/ chunks_info = <<>>
           \/ Len(chunks_info) = 1 /\ chunks_info[1].content = <<>>

\* C6 (Monotonicity): for a non-empty text and a positive effective limit,
\* a run with requested count n2 emits at least as many chunks as the run
\* on the same text with any requested count n1 <= n2.
C6_Monotonicity ==
    (Returned /\ ValidInput /\ requested # <<>>) =>
        \A n1 \in (-1)..MaxRequest :
            n1 <= requested[1] =>
                EmittedFor(content, tokenizer, effective_limit, <<n1>>)
                    <= Len(chunks_info)

\* The run with the larger count stopped early (step 7) and emitted exactly
\* as many chunks as the run with the next smaller count, itself above the
\* minimum.
C6_Witness ==
    /\ Returned /\ ValidInput /\ requested # <<>>
    /\ requested[1] > min_chunks + 1
    /\ Len(chunks_info) < num_chunks
    /\ EmittedFor(content, tokenizer, effective_limit, <<requested[1] - 1>>)
           = Len(chunks_info)

\* C7 (Validator soundness): when the chunks' line counts add up to the
\* original line count (no warning), the concatenated chunks equal the text.
C7_ValidatorSoundness ==
    (Returned /\ ValidInput /\ warning = <<>>) => ConcatContents(chunks_info) = content

\* C8 (Validator discrepancy): a warning is reported exactly when
\* original_lines differs from the sum of the chunks' line counts, its
\* magnitude is original_lines minus that sum, which is the number of line
\* separators in the text no chunk covers, and a run that reported a
\* warning has returned its chunk list.
C8_ValidatorDiscrepancy ==
    /\ Returned =>
          /\ (warning # <<>>) <=> (original_lines # SumLines(chunks_info))
          /\ warning # <<>> =>
                 warning[1] = original_lines - SumLines(chunks_info)
          /\ original_lines - SumLines(chunks_info) = UncoveredLines
    /\ warning # <<>> => Returned

\* Lines were lost after at least two chunks were emitted, and reported.
C8_Witness ==
    /\ Returned /\ ValidInput
    /\ Len(chunks_info) >= 2
    /\ warning # <<>>
    /\ warning[1] > 0

\* C9 (Boundary placement): a chunk not at the last planned index whose
\* naive boundary lies before the end of the text ends 2 characters past
\* the start of the last marker of its naive window, or at the naive
\* boundary when the window holds no marker; any other chunk ends at its
\* naive boundary.
C9_BoundaryPlacement ==
    \A k \in 1..Len(ranges) :
        LET r == ranges[k]
            naive == Min(r.start + chunk_size, Len(content))
            marks == MarkerOffsets(r)
        IN IF r.index # num_chunks - 1 /\ naive < Len(content) /\ marks # {}
           THEN /\ r.end = r.start + SetMax(marks) + 2
                /\ IsMarker(SubSeq(content, r.end - 1, r.end))
           ELSE r.end = naive

\* A boundary was moved back to the later of two markers of one window,
\* and the chunk at the last planned index kept a window holding a marker.
C9_Witness ==
    /\ Returned /\ ValidInput
    /\ \E k \in 1..Len(ranges) :
          /\ Adjusted(ranges[k])
          /\ Cardinality(MarkerOffsets(ranges[k])) >= 2
    /\ \E k \in 1..Len(ranges) :
          /\ ranges[k].index = num_chunks - 1
          /\ MarkerOffsets(ranges[k]) # {}
          /\ ~IsMarker(SubSeq(content, ranges[k].end - 1, ranges[k].end))

\* C10 (Well-formed prefix partition): after any number of iterations the
\* emitted ranges start at 0, are contiguous, non-empty and end no later
\* than their naive boundary; each chunk is the text of its range.
C10_PrefixPartition ==
    /\ Len(ranges) = Len(chunks_info)
    /\ \A k \in 1..Len(ranges) :
          /\ ranges[k].start = (IF k = 1 THEN 0 ELSE ranges[k - 1].end)
          /\ ranges[k].start < ranges[k].end
          /\ ranges[k].end <= Min(ranges[k].start + chunk_size, Len(content))
          /\ chunks_info[k].content =
                 SubSeq(content, ranges[k].start + 1, ranges[k].end)
    /\ current_pos = (IF ranges = <<>> THEN 0 ELSE ranges[Len(ranges)].end)

\* The loop is still running after three chunks, one of them cut short at
\* a marker.
C10_Witness ==
    /\ pc = "loop" /\ ValidInput
    /\ Len(ranges) >= 3
    /\ \E k \in 1..Len(ranges) : Adjusted(ranges[k])

\* The loop of process_file and the function CountFrom agree on every run.
RunAgrees ==
    (Returned /\ ValidInput) =>
        Len(chunks_info) = EmittedFor(content, tokenizer, effective_limit, requested)

====
